---- MODULE Spec2Model ----
(***************************************************************************)
(* Model of the torrent reconciliation jobs of MoviePilot-Plugins          *)
(* (plugins.v2/delete, plugins.v2/limit, plugins.v2/tag).                  *)
(*                                                                         *)
(* The delete job (Delete._complete_delete) is modelled step by step: one  *)
(* action for the prologue of a run, one per scanned downloader, one per   *)
(* torrent iteration and one for the final save_data.  The plugin's own    *)
(* one-shot scheduler (runner "date") and the host-registered trigger      *)
(* (runner "cron") both call the same method on the same plugin object.    *)
(***************************************************************************)
EXTENDS Integers, Sequences, FiniteSets, TLC

\* ------------------------------------------------------------------ bounds
MaxTimes == 2
MaxTrackers == 2

\* ------------------------------------------------------- the environment
Downloaders == {"qb", "tr"}
DownloaderOrder == <<"qb", "tr">>
Hashes == {"h1", "h2"}
HashOrder == <<"h1", "h2">>
Runners == {"date", "cron"}

\* the torrents a downloader can hold; "h1" can be seeded from both
Seeded(d) == IF d = "qb" THEN {"h1", "h2"} ELSE {"h1"}

service_type(d) == IF d = "qb" THEN "qbittorrent" ELSE "transmission"

BoundedSeq(S, n) == UNION {[1..k -> S] : k \in 0..n}

Range(s) == {s[i] : i \in DOMAIN s}

\* qBittorrent tracker status codes (1 not contacted, 2 working, 4 not
\* working) and Transmission last_announce_result texts
QbStatus == {1, 2, 4}
TrResult == {"Success", "Could not connect to tracker"}
TrackerLists(type) ==
    IF type = "qbittorrent" THEN BoundedSeq(QbStatus, MaxTrackers)
    ELSE BoundedSeq(TrResult, MaxTrackers)

\* raw tag lists of a torrent as the downloader reports them
TagLists == {<<>>, <<"keep">>, <<"other">>, <<"other", " keep">>}
TagMapTexts == {<<>>, <<"keep">>}

\* where a torrent iteration can raise, and how delete_torrents can end
RaisePoints == {"none", "trackers"}
DeleteResults == {"ok", "ValueError", "error"}

VARIABLES
    plugin,                                \* which plugin the object is
    cover, global, limit_tag_map,          \* configuration of the limit plugin
    up_limit, speed_calls, global_calls,   \* upload limits, set-limit calls of a run
    tracker_map, save_path_map,            \* configuration of the tag plugin
    labels, tag_calls,                     \* tags of each torrent, set-tag calls of a run
    accumulate, times, tag_map, enabled,   \* configuration read by init_plugin
    delete,                                \* the 'delete' switch read by init_plugin
    interval, interval_unit, interval_time,\* schedule selection read by init_plugin
    service,                               \* what get_service last returned
    config_onlyonce,                       \* onlyonce in the persisted configuration
    requested, immediate,                  \* last init_plugin call, the runs it set up
    interrupted,                           \* runs in progress when stop_service was entered
    present,                               \* torrents held by each downloader
    data,                                  \* plugin data under key "config"
    heap, new_config,                      \* the two dict objects of a run
    event, scheduler, jobs, host, onlyonce,\* stop event, own scheduler, host thread
    pc, queue, batch,                      \* position of each runner in a run
    before, handled, deletes, writes, outcome, left, raised,
    streak, last,                          \* completed-run streaks, last iteration
    missed,                                \* torrents whose check an error cut short
    notify, get_dir, msg_type,             \* configuration of the HA plugin
    threads, holding, wake,                \* process_queue threads, their message, end of sleep
    message_queue, offered,                \* queued messages, number of messages offered
    last_send_time, now, sent, stopped,    \* clock, successful sends, stop_service was called
    files, call, listing, batches,         \* a monitored directory, rename_subtitle calls
    processed_files, replaced, reports     \* renamed paths, files overwritten, failures

limitvars == <<cover, global, limit_tag_map, up_limit, speed_calls, global_calls>>
tagvars == <<tracker_map, save_path_map, labels, tag_calls>>
havars == <<notify, get_dir, msg_type, threads, holding, wake, message_queue, offered,
           last_send_time, now, sent, stopped>>
subvars == <<files, call, listing, batches, processed_files, replaced, reports>>
extvars == <<delete, havars, subvars>>
othervars == <<plugin, extvars, limitvars, tagvars>>
svcvars == <<interval, interval_unit, interval_time, service>>
cfgvars == <<accumulate, times, tag_map, enabled, svcvars>>
oncevars == <<config_onlyonce, requested, immediate, interrupted>>
schedvars == <<event, scheduler, jobs, host, onlyonce, oncevars>>
histvars == <<before, handled, deletes, writes, outcome, left, raised, streak, last,
              missed>>
vars == <<othervars, cfgvars, present, data, heap, new_config, schedvars,
          pc, queue, batch, histvars>>

\* ------------------------------------------------------------ dictionaries
EmptyDict == [h \in {} |-> 0]

Put(dict, h, rec) ==
    [k \in (DOMAIN dict) \cup {h} |-> IF k = h THEN rec ELSE dict[k]]

\* self._old_config always refers to the dict read at the start of the run;
\* self._new_config refers to that same dict or to a dict of its own
old_config == "old"

\* ------------------------------------------------------------ pure helpers
strip(tag) == IF tag = " keep" THEN "keep" ELSE tag

get_tags(type, raw) ==
    IF type = "qbittorrent"
    THEN (IF raw = <<>> THEN <<"">> ELSE [i \in DOMAIN raw |-> strip(raw[i])])
    ELSE raw

ignored_if_all(torrent_tags, lines) ==
    \A i \in DOMAIN torrent_tags : torrent_tags[i] \in Range(lines)

ignored(torrent_tags, lines) ==
    \E i \in DOMAIN torrent_tags : torrent_tags[i] \in Range(lines)

success_from_2(type, tracker) ==
    IF type = "qbittorrent" THEN tracker >= 2 ELSE tracker = "Success"

success(type, tracker) ==
    IF type = "qbittorrent" THEN tracker = 2 ELSE tracker = "Success"

\* the for/else loops of Delete._check: break at the first successful tracker
RECURSIVE no_break(_, _, _)
no_break(type, trackers, i) ==
    IF i > Len(trackers) THEN TRUE
    ELSE IF success(type, trackers[i]) THEN FALSE
    ELSE no_break(type, trackers, i + 1)

unreachable(type, trackers) == no_break(type, trackers, 1)

exceeds_late(time) == time > times + 1

exceeds_or_equal(time) == time >= times

exceeds(time) == time > times

first_time == 1

next_time_stuck(rec) == rec.time

next_time(rec) == rec.time + 1

new_config_ref_swapped ==
    IF accumulate THEN old_config ELSE "new"

new_config_ref ==
    IF ~accumulate THEN old_config ELSE "new"

active_services(a) == SelectSeq(DownloaderOrder, LAMBDA d : d \in a)

get_torrents(d) == SelectSeq(HashOrder, LAMBDA h : h \in present[d])

\* some tracker of the list reports a successful announce
any_success(type, trackers) ==
    \E i \in DOMAIN trackers :
        trackers[i] = (IF type = "qbittorrent" THEN 2 ELSE "Success")

\* the torrent carries a tag equal to a line of the ignore list; the tags of
\* a qBittorrent torrent are the trimmed pieces of its comma-separated list
carries(type, raw, lines) ==
    \E i \in DOMAIN raw :
       (IF type = "qbittorrent" THEN strip(raw[i]) ELSE raw[i]) \in Range(lines)

\* what the last torrent iteration saw and did; exempt when the torrent
\* carried an ignore tag
NoIteration ==
    [checked |-> FALSE, succeeded |-> FALSE, classified |-> FALSE,
     counted |-> FALSE, deleted |-> FALSE, exempt |-> FALSE]

\* ------------------------------------------------------------------- Init
\* ------------------------------------------------- limit plugin: rule text
\* A rule text is its lines, a line the fields item.split(":") yields.
DefaultLimitText == << <<"tag", "limit(KB)">> >>
LimitTexts ==
    { << <<"slow", "50">>, <<"fast", "1000">> >>,
      << <<"slow", "50">>, <<"">>, <<"fast", "1000">> >>,
      << <<"slow", "50">>, <<"slow", "80">> >>,
      DefaultLimitText }

\* int(s): the decimal strings used in rule texts; others raise ValueError
IsInt(s) == s \in {"50", "80", "1000"}
int(s) == IF s = "50" THEN 50 ELSE IF s = "80" THEN 80 ELSE 1000

\* dict assignment tag_map[k] = v on a dict kept as its items in order
DictSet(items, k, v) ==
    IF \E i \in DOMAIN items : items[i][1] = k
    THEN [i \in DOMAIN items |-> IF items[i][1] = k THEN <<k, v>> ELSE items[i]]
    ELSE Append(items, <<k, v>>)

DictHas(items, k) == \E i \in DOMAIN items : items[i][1] = k

DictGet(items, k) == items[CHOOSE i \in DOMAIN items : items[i][1] = k][2]

\* the parsing loop of Limit._complete_limit
RECURSIVE parse_limit(_, _, _)
parse_limit(lines, i, items) ==
    IF i > Len(lines) THEN [error |-> "none", map |-> items]
    ELSE LET f == lines[i] IN
         IF Len(f) < 2 THEN [error |-> "IndexError", map |-> items]
         ELSE IF f[2] = "" THEN parse_limit(lines, i + 1, items)
         ELSE IF ~IsInt(f[2]) THEN [error |-> "ValueError", map |-> items]
         ELSE parse_limit(lines, i + 1, DictSet(items, f[1], int(f[2])))

\* tag lists of a torrent as read by Limit._get_tags
LimitTagLists == {<<>>, <<"slow">>, <<"fast", "slow">>, <<"other">>}
InitialLimits == {0, 30}

\* --------------------------------------------------- tag plugin: the data
\* tracker URLs, save paths, and the keys a rule can look for in them
Contains(subject, key) ==
    <<subject, key>> \in
       { <<"http://abc.com/ann", "abc.com">>, <<"http://def.com/ann", "def.com">>,
         <<"http://reg.org/ann", "reg.org">>,
         <<"http://abc.com/ann", "/ann">>, <<"http://def.com/ann", "/ann">>,
         <<"http://reg.org/ann", "/ann">>,
         <<"/data/movies/x", "/movies">>, <<"/data/movies/x", "/data">>,
         <<"/data/tv", "/data">> }

\* StringUtils.get_url_domain and SitesHelper.get_indexer: the registry
\* knows the site of reg.org only
IndexerNames == {"RegSite"}
get_url_domain(tracker) ==
    IF tracker = "http://abc.com/ann" THEN "abc.com"
    ELSE IF tracker = "http://def.com/ann" THEN "def.com"
    ELSE "reg.org"
get_indexer(domain) == IF domain = "reg.org" THEN "RegSite" ELSE ""

\* what the downloaders report for each torrent
get_path(d, h) ==
    IF h = "h1" THEN "/data/movies/x" ELSE IF d = "qb" THEN "/data/tv" ELSE ""
get_trackers(d, h) ==
    IF h = "h2" THEN <<"http://def.com/ann", "http://reg.org/ann">>
    ELSE IF d = "qb" THEN <<"http://def.com/ann", "http://abc.com/ann">>
    ELSE <<"http://reg.org/ann", "http://abc.com/ann">>

DefaultTrackerText == << <<"tracker", "site">> >>
DefaultPathText == << <<"path", "label">> >>
TrackerTexts ==
    { << <<"abc.com", "PT">>, <<"def.com", "Free">> >>,
      << <<"/ann", "Any">>, <<"reg.org", "Mine">> >>,
      << <<"def.com", "PT">>, <<"def.com", "Free">> >>,
      DefaultTrackerText }
PathTexts ==
    { << <<"/movies", "Movie">> >>,
      << <<"/movies", "Movie">>, <<"broken">> >> }
InitialLabels == {{}, {"RegSite"}}

\* the parsing loops of DownloadSiteTag._complemented_history
RECURSIVE parse_map(_, _, _)
parse_map(lines, i, items) ==
    IF i > Len(lines) THEN [error |-> "none", map |-> items]
    ELSE LET f == lines[i] IN
         IF Len(f) < 2 THEN [error |-> "IndexError", map |-> items]
         ELSE parse_map(lines, i + 1, DictSet(items, f[1], f[2]))

\* the first item of the table, in table order, whose key the subject contains
RECURSIVE first_rule(_, _, _)
first_rule(items, i, subject) ==
    IF i > Len(items) THEN 0
    ELSE IF Contains(subject, items[i][1]) THEN i
    ELSE first_rule(items, i + 1, subject)

RECURSIVE site_of_registry_first(_, _, _)
site_of_registry_first(trackers, i, items) ==
    IF i > Len(trackers) THEN ""
    ELSE LET k == first_rule(items, 1, trackers[i])
             known == get_indexer(get_url_domain(trackers[i]))
             site == IF known # "" THEN known
                     ELSE IF k # 0 THEN items[k][2] ELSE "" IN
         IF site # "" THEN site ELSE site_of_registry_first(trackers, i + 1, items)

\* the tracker loop: the site of the first tracker that yields one
RECURSIVE site_of(_, _, _)
site_of(trackers, i, items) ==
    IF i > Len(trackers) THEN ""
    ELSE LET k == first_rule(items, 1, trackers[i])
             site == IF k # 0 THEN items[k][2]
                     ELSE get_indexer(get_url_domain(trackers[i])) IN
         IF site # "" THEN site ELSE site_of(trackers, i + 1, items)

\* DownloadSiteTag._get_label
get_label(type, tags) ==
    IF type = "qbittorrent" /\ tags = {} THEN {""} ELSE tags

torrent_sites_unguarded(d, h, torrent_tags, path_items, tracker_items) ==
    LET k == first_rule(path_items, 1, get_path(d, h))
        by_path == IF k # 0 THEN {path_items[k][2]} ELSE {}
        site == site_of(get_trackers(d, h), 1, tracker_items)
    IN by_path \cup (IF site # "" THEN {site} ELSE {})

\* the labels computed for a torrent: save-path label, then site label
torrent_sites(d, h, torrent_tags, path_items, tracker_items) ==
    LET k == first_rule(path_items, 1, get_path(d, h))
        by_path == IF k # 0 THEN {path_items[k][2]} ELSE {}
        site == IF IndexerNames \cap torrent_tags = {}
                THEN site_of(get_trackers(d, h), 1, tracker_items)
                ELSE ""
    IN by_path \cup (IF site # "" THEN {site} ELSE {})

sent_tags_new_only(type, tags, original_tags) == tags \ original_tags

\* DownloadSiteTag._set_torrent_info: the tag list sent to the downloader
sent_tags(type, tags, original_tags) ==
    IF type = "qbittorrent" /\ original_tags # {}
    THEN tags \ original_tags
    ELSE original_tags \cup tags

\* class attributes of DownloadSiteTag, untouched while another plugin is modelled
TagDefaults ==
    /\ tracker_map = DefaultTrackerText
    /\ save_path_map = DefaultPathText
    /\ labels = [d \in Downloaders |-> [h \in Hashes |-> {}]]
    /\ tag_calls = {}

\* class attributes of the schedule selection; no service registered yet
DefaultIntervalTime == 24
NoService == [trigger |-> "none", minutes |-> 0]
ServiceDefaults ==
    /\ interval = "cron"
    /\ interval_unit = "hours"
    /\ interval_time = DefaultIntervalTime
    /\ service = NoService

\* --------------------------------------------------------- the HA plugin
MaxThreads == 2
MaxMessages == 2
MaxClock == 6

\* class attribute send_interval, in seconds; the clock starts a full
\* interval after last_send_time = 0
send_interval == 5

Threads == 1..MaxThreads
NoMessage == [id |-> 0, channel |-> FALSE]
MsgTypeLists == {{}, {"Download"}}
NoConfig == [enabled |-> FALSE, notify |-> FALSE, get_dir |-> "none", msg_type |-> {}]
HAConfigs ==
    [enabled : BOOLEAN, notify : BOOLEAN, get_dir : {"", "http://ha"},
     msg_type : MsgTypeLists] \cup {NoConfig}
PostResults == {"ok", "errcode", "raise"}

\* class attributes of HA, untouched while another plugin is modelled
HADefaults ==
    /\ notify = FALSE
    /\ get_dir = ""
    /\ msg_type = {}
    /\ threads = [t \in Threads |-> "none"]
    /\ holding = [t \in Threads |-> NoMessage]
    /\ wake = [t \in Threads |-> 0]
    /\ message_queue = <<>>
    /\ offered = 0
    /\ last_send_time = 0
    /\ now = send_interval
    /\ sent = <<>>
    /\ stopped = FALSE

\* ---------------------------------------------- the subtitle renamer: data
MaxBatches == 2

\* one monitored directory with the video show.S01E01.mkv: two subtitles of
\* that episode, the name the renamer gives them, a subtitle of no episode
Target == "show.S01E01.srt"
Paths == {"a.S01E01.srt", "b.S01E01.srt", Target, "notes.srt"}
PathOrder == <<"a.S01E01.srt", "b.S01E01.srt", "notes.srt", Target>>
Callers == {"watcher", "batch"}
NoCall == [path |-> "", stage |-> "idle"]

\* attributes of AutoSubRename, untouched while another plugin is modelled
SubDefaults ==
    /\ files = [p \in Paths |-> "none"]
    /\ call = [c \in Callers |-> NoCall]
    /\ listing = <<>>
    /\ batches = 0
    /\ processed_files = {}
    /\ replaced = {}
    /\ reports = {}

\* no scheduler, no job, no run
InitIdle ==
    /\ event = FALSE
    /\ scheduler = FALSE
    /\ jobs = 0
    /\ host = "idle"
    /\ onlyonce = FALSE
    /\ config_onlyonce = FALSE
    /\ requested = "plain"
    /\ immediate = 0
    /\ interrupted = {}
    /\ ServiceDefaults
    /\ pc = [r \in Runners |-> "idle"]
    /\ queue = [r \in Runners |-> <<>>]
    /\ batch = [r \in Runners |-> <<>>]
    /\ outcome = "none"
    /\ left = <<>>
    /\ raised = FALSE

\* the state of the plugin object and of the downloaders after init_plugin
InitShared ==
    /\ enabled = TRUE
    /\ InitIdle
    /\ HADefaults
    /\ SubDefaults

InitDeleteState ==
    /\ data = EmptyDict
    /\ heap = [o \in {"old", "new"} |-> EmptyDict]
    /\ new_config = "new"
    /\ before = EmptyDict
    /\ handled = {}
    /\ deletes = {}
    /\ writes = 0
    /\ streak = [h \in Hashes |-> 0]
    /\ last = NoIteration
    /\ missed = {}

\* class attributes of Delete, untouched while another plugin is modelled
DefaultTimes == 7
DeleteDefaults ==
    /\ accumulate = FALSE
    /\ delete = FALSE
    /\ times = DefaultTimes
    /\ tag_map = <<>>
    /\ InitDeleteState

\* class attributes of Limit, untouched while another plugin is modelled
LimitDefaults ==
    /\ cover = FALSE
    /\ global = FALSE
    /\ limit_tag_map = DefaultLimitText
    /\ up_limit = [d \in Downloaders |-> [h \in Hashes |-> 0]]
    /\ speed_calls = {}
    /\ global_calls = {}

Init ==
    /\ plugin = "delete"
    /\ accumulate \in BOOLEAN
    /\ delete = TRUE
    /\ times \in 1..MaxTimes
    /\ tag_map \in TagMapTexts
    /\ present = [d \in Downloaders |-> Seeded(d)]
    /\ InitShared
    /\ InitDeleteState
    /\ LimitDefaults
    /\ TagDefaults

\* -------------------------------------------------- one torrent iteration
record(d, time) == [type |-> d, time |-> time]

delete_call(d, h, time) ==
    [downloader |-> d, hash |-> h, time |-> time, delete_file |-> FALSE]

NoEffect ==
    [heap |-> heap, handled |-> {}, deletes |-> {}, removed |-> {}, raised |-> FALSE]

\* Delete._handle: count the failure, delete when the count exceeds the threshold
handle(d, h, res) ==
    IF h \in DOMAIN heap[old_config]
    THEN LET time == next_time(heap[old_config][h]) IN
         IF exceeds(time)
         THEN [NoEffect EXCEPT !.handled = {h},
                               !.deletes = {delete_call(d, h, time)},
                               !.removed = IF res = "ok" THEN {h} ELSE {},
                               !.raised = (res = "error")]
         ELSE [NoEffect EXCEPT !.handled = {h},
                               !.heap = [heap EXCEPT ![new_config] = Put(@, h, record(d, time))]]
    ELSE [NoEffect EXCEPT !.handled = {h},
                          !.heap = [heap EXCEPT ![new_config] = Put(@, h, record(d, first_time))]]

\* ---------------------------------------------------------------- actions
Triggered(r) == IF r = "date" THEN scheduler /\ jobs > 0 ELSE enabled

ResetHistory ==
    /\ before' = data
    /\ handled' = {} /\ deletes' = {} /\ writes' = 0
    /\ left' = <<>> /\ raised' = FALSE
    /\ last' = NoIteration
    /\ missed' = {}

\* Delete._complete_delete up to the head of the downloader loop; a1 and a2
\* are the connected downloaders at the two evaluations of service_infos
complete_delete_start(r) ==
    /\ pc[r] = "idle"
    /\ Triggered(r)
    /\ jobs' = IF r = "date" THEN jobs - 1 ELSE jobs
    /\ ResetHistory
    /\ \E a1 \in SUBSET Downloaders :
         IF a1 = {}
         THEN /\ outcome' = "skipped"
              /\ UNCHANGED <<heap, new_config, pc, queue>>
         ELSE /\ heap' = [old |-> data, new |-> EmptyDict]
              /\ new_config' = new_config_ref
              /\ \E a2 \in SUBSET Downloaders :
                   IF a2 = {}
                   THEN /\ outcome' = "crashed"
                        /\ UNCHANGED <<pc, queue>>
                   ELSE /\ outcome' = "running"
                        /\ pc' = [pc EXCEPT ![r] = "scan"]
                        /\ queue' = [queue EXCEPT ![r] = active_services(a2)]
    /\ UNCHANGED <<othervars, cfgvars, present, data, event, scheduler, host, onlyonce, oncevars, batch, streak>>

\* head of the downloader loop: fetch the torrents of the next downloader
scan_downloader(r) ==
    /\ pc[r] = "scan"
    /\ queue[r] # <<>>
    /\ LET d == Head(queue[r])
           torrents == get_torrents(d) IN
       \E error \in BOOLEAN :
         /\ IF error \/ torrents = <<>>
            THEN /\ queue' = [queue EXCEPT ![r] = Tail(@)]
                 /\ UNCHANGED <<pc, batch>>
            ELSE /\ batch' = [batch EXCEPT ![r] = torrents]
                 /\ pc' = [pc EXCEPT ![r] = "torrent"]
                 /\ UNCHANGED queue
         /\ missed' = missed \cup (IF error THEN {<<d, h>> : h \in Range(torrents)} ELSE {})
    /\ last' = NoIteration
    /\ UNCHANGED <<othervars, cfgvars, present, data, heap, new_config, schedvars,
                   before, handled, deletes, writes, outcome, left, raised, streak>>

\* the work a run has not done when it ends: the rest of the torrent list
\* and the downloaders after the current one
remaining(r) == <<batch[r], queue[r]>>

stop_return_saving(r) ==
    /\ pc' = [pc EXCEPT ![r] = "idle"]
    /\ left' = remaining(r)
    /\ queue' = [queue EXCEPT ![r] = <<>>]
    /\ batch' = [batch EXCEPT ![r] = <<>>]
    /\ outcome' = "cancelled"
    /\ last' = NoIteration
    /\ data' = heap[new_config]
    /\ writes' = writes + 1

\* the stop check of a torrent iteration found the event set: return, no save
stop_return(r) ==
    /\ pc' = [pc EXCEPT ![r] = "idle"]
    /\ left' = remaining(r)
    /\ queue' = [queue EXCEPT ![r] = <<>>]
    /\ batch' = [batch EXCEPT ![r] = <<>>]
    /\ outcome' = "cancelled"
    /\ last' = NoIteration
    /\ UNCHANGED <<data, writes>>

save_per_torrent ==
    /\ data' = heap'[new_config]
    /\ writes' = writes + 1

\* a torrent iteration never calls save_data
no_save == UNCHANGED <<data, writes>>

\* end of a torrent iteration: next torrent, or back to the downloader loop
advance(r, d, eff, seen) ==
    /\ heap' = eff.heap
    /\ last' = [seen EXCEPT !.classified = (eff.handled # {}),
                            !.counted = (eff.heap # heap),
                            !.deleted = (eff.deletes # {})]
    /\ missed' = missed \cup (IF eff.raised THEN {<<d, Head(batch[r])>>} ELSE {})
    /\ handled' = handled \cup eff.handled
    /\ deletes' = deletes \cup eff.deletes
    /\ present' = [present EXCEPT ![d] = @ \ eff.removed]
    /\ raised' = (raised \/ eff.raised)
    /\ IF Len(batch[r]) > 1
       THEN /\ batch' = [batch EXCEPT ![r] = Tail(@)]
            /\ UNCHANGED <<pc, queue>>
       ELSE /\ batch' = [batch EXCEPT ![r] = <<>>]
            /\ queue' = [queue EXCEPT ![r] = Tail(@)]
            /\ pc' = [pc EXCEPT ![r] = "scan"]
    /\ no_save
    /\ UNCHANGED <<outcome, left>>

\* Delete._check: a torrent none of whose trackers announced successfully is handled
check(r, d, h, torrent) ==
    \E raise \in RaisePoints :
      IF raise = "trackers"
      THEN advance(r, d, [NoEffect EXCEPT !.raised = TRUE], torrent)
      ELSE \E trackers \in TrackerLists(service_type(d)) :
             LET seen == [torrent EXCEPT !.checked = TRUE,
                             !.succeeded = any_success(service_type(d), trackers)] IN
             IF unreachable(service_type(d), trackers)
             THEN \E res \in DeleteResults : advance(r, d, handle(d, h, res), seen)
             ELSE advance(r, d, NoEffect, seen)

\* one iteration of the torrent loop
process_torrent(r) ==
    /\ pc[r] = "torrent"
    /\ LET d == Head(queue[r])
           h == Head(batch[r]) IN
       IF event
       THEN /\ stop_return(r)
            /\ UNCHANGED <<present, heap, handled, deletes, raised, missed>>
       ELSE \E raw \in TagLists :
              LET torrent == [NoIteration EXCEPT
                                 !.exempt = carries(service_type(d), raw, tag_map)] IN
              IF ignored(get_tags(service_type(d), raw), tag_map)
              THEN advance(r, d, NoEffect, torrent)
              ELSE check(r, d, h, torrent)
    /\ UNCHANGED <<othervars, cfgvars, new_config, schedvars, before, streak>>

loop_finished(r) == queue[r] = <<>>

\* number of consecutive completed runs (accumulate=true) that classified h
\* unreachable, counted from the last run before which h had no record
next_streak(h) ==
    IF ~accumulate THEN 0
    ELSE IF h \notin handled THEN 0
    ELSE IF streak[h] > times THEN 1
    ELSE streak[h] + 1

\* after the downloader loop: save_data(key="config", value=self._new_config)
save_data(r) ==
    /\ pc[r] = "scan"
    /\ loop_finished(r)
    /\ data' = heap[new_config]
    /\ writes' = writes + 1
    /\ outcome' = "completed"
    /\ left' = remaining(r)
    /\ pc' = [pc EXCEPT ![r] = "idle"]
    /\ queue' = [queue EXCEPT ![r] = <<>>]
    /\ streak' = [h \in Hashes |-> next_streak(h)]
    /\ last' = NoIteration
    /\ UNCHANGED <<othervars, cfgvars, present, heap, new_config, schedvars, batch,
                   before, handled, deletes, raised, missed>>

schedule_once_keeps_flag(oo, saved) ==
    IF oo
    THEN /\ scheduler' = TRUE /\ jobs' = 1 /\ immediate' = 1
         /\ onlyonce' = oo /\ config_onlyonce' = saved
    ELSE /\ scheduler' = FALSE /\ jobs' = 0 /\ immediate' = 0
         /\ onlyonce' = FALSE /\ config_onlyonce' = saved

\* lines 74-86 of init_plugin: with onlyonce set, reset it, persist the
\* configuration and add the one-shot job to a new scheduler; saved is the
\* persisted onlyonce at that point
schedule_once(oo, saved) ==
    IF oo
    THEN /\ scheduler' = TRUE /\ jobs' = 1 /\ immediate' = 1
         /\ onlyonce' = FALSE /\ config_onlyonce' = FALSE
    ELSE /\ scheduler' = FALSE /\ jobs' = 0 /\ immediate' = 0
         /\ onlyonce' = FALSE /\ config_onlyonce' = saved

\* init_plugin called with a configuration whose onlyonce is oo, which the
\* host has persisted; up to the point where stop_service blocks in shutdown()
call_init_plugin(oo, origin) ==
    /\ host = "idle"
    /\ requested' = origin
    /\ IF scheduler
       THEN /\ onlyonce' = oo
            /\ config_onlyonce' = oo
            /\ jobs' = 0
            /\ immediate' = 0
            /\ event' = TRUE
            /\ host' = "shutdown"
            /\ interrupted' = {r \in Runners : pc[r] # "idle"}
            /\ UNCHANGED scheduler
       ELSE /\ schedule_once(oo, oo)
            /\ UNCHANGED <<event, host, interrupted>>
    /\ UNCHANGED <<othervars, cfgvars, present, data, heap, new_config,
                   pc, queue, batch, histvars>>

\* Delete.init_plugin with the configuration the user submitted
init_plugin(oo) == call_init_plugin(oo, IF oo THEN "onlyonce" ELSE "plain")

\* init_plugin called again with the persisted configuration
reload == call_init_plugin(config_onlyonce, "persisted")

\* shutdown() returns once the one-shot run has ended; the rest of init_plugin
shutdown_return ==
    /\ host = "shutdown"
    /\ pc["date"] = "idle"
    /\ event' = FALSE
    /\ host' = "idle"
    /\ interrupted' = {}
    /\ schedule_once(onlyonce, config_onlyonce)
    /\ UNCHANGED <<othervars, cfgvars, present, data, heap, new_config,
                   pc, queue, batch, histvars, requested>>

\* the user adds a torrent to a downloader
add_torrent(d, h) ==
    /\ h \in Seeded(d) \ present[d]
    /\ present' = [present EXCEPT ![d] = @ \cup {h}]
    /\ UNCHANGED <<othervars, cfgvars, data, heap, new_config, schedvars,
                   pc, queue, batch, histvars>>

NoRun == \A r \in Runners : pc[r] = "idle"

\* ------------------------------------------------------------ limit plugin
deletevars == <<cfgvars, data, heap, new_config,
                before, handled, deletes, writes, streak, last, missed>>

InitLimit ==
    /\ plugin = "limit"
    /\ cover \in BOOLEAN
    /\ global \in BOOLEAN
    /\ limit_tag_map \in LimitTexts
    /\ up_limit \in {f \in [Downloaders -> [Hashes -> InitialLimits]] :
                       \A d \in Downloaders : \A h \in Hashes \ Seeded(d) : f[d][h] = 0}
    /\ speed_calls = {}
    /\ global_calls = {}
    /\ present = [d \in Downloaders |-> Seeded(d)]
    /\ InitShared
    /\ DeleteDefaults
    /\ TagDefaults

\* the torrents and downloaders after the current ones
later_work(r) == <<Tail(batch[r]), Tail(queue[r])>>

\* an exception leaves the run: nothing after the current point is done
run_dies(r, how, rest) ==
    /\ pc' = [pc EXCEPT ![r] = "idle"]
    /\ queue' = [queue EXCEPT ![r] = <<>>]
    /\ batch' = [batch EXCEPT ![r] = <<>>]
    /\ outcome' = how
    /\ left' = rest

\* next torrent of the list, or back to the downloader loop
next_torrent(r) ==
    IF Len(batch[r]) > 1
    THEN /\ batch' = [batch EXCEPT ![r] = Tail(@)]
         /\ UNCHANGED <<pc, queue>>
    ELSE /\ batch' = [batch EXCEPT ![r] = <<>>]
         /\ queue' = [queue EXCEPT ![r] = Tail(@)]
         /\ pc' = [pc EXCEPT ![r] = "scan"]

\* Limit._complete_limit up to the head of the downloader loop
complete_limit_start(r) ==
    /\ pc[r] = "idle"
    /\ Triggered(r)
    /\ jobs' = IF r = "date" THEN jobs - 1 ELSE jobs
    /\ speed_calls' = {} /\ global_calls' = {}
    /\ left' = <<>> /\ raised' = FALSE
    /\ \E a1 \in SUBSET Downloaders :
         IF a1 = {}
         THEN /\ outcome' = "skipped"
              /\ UNCHANGED <<pc, queue>>
         ELSE \E a2 \in SUBSET Downloaders :
                IF a2 = {}
                THEN /\ outcome' = "crashed"
                     /\ UNCHANGED <<pc, queue>>
                ELSE /\ outcome' = "running"
                     /\ pc' = [pc EXCEPT ![r] = "scan"]
                     /\ queue' = [queue EXCEPT ![r] = active_services(a2)]
    /\ UNCHANGED <<plugin, extvars, tagvars, cover, global, limit_tag_map, up_limit, deletevars,
                   present, event, scheduler, host, onlyonce, oncevars, batch>>

\* one pass of the downloader loop up to the torrent loop
limit_scan_downloader(r) ==
    /\ pc[r] = "scan"
    /\ queue[r] # <<>>
    /\ LET d == Head(queue[r])
           torrents == get_torrents(d)
           parsed == parse_limit(limit_tag_map, 1, <<>>) IN
       /\ global_calls' = IF global THEN global_calls \cup {d} ELSE global_calls
       /\ IF limit_tag_map = <<>>
          THEN /\ queue' = [queue EXCEPT ![r] = Tail(@)]
               /\ UNCHANGED <<pc, batch, outcome, left>>
          ELSE IF parsed.error # "none"
          THEN run_dies(r, "rule_error", <<<<>>, Tail(queue[r])>>)
          ELSE \E error \in BOOLEAN :
                 IF error \/ torrents = <<>>
                 THEN /\ queue' = [queue EXCEPT ![r] = Tail(@)]
                      /\ UNCHANGED <<pc, batch, outcome, left>>
                 ELSE /\ batch' = [batch EXCEPT ![r] = torrents]
                      /\ pc' = [pc EXCEPT ![r] = "torrent"]
                      /\ UNCHANGED <<queue, outcome, left>>
    /\ UNCHANGED <<plugin, extvars, tagvars, cover, global, limit_tag_map, up_limit, speed_calls,
                   deletevars, present, schedvars, raised>>

\* the first tag of the torrent, in the torrent's order, that the table has
RECURSIVE first_ruled_tag(_, _, _)
first_ruled_tag(tags, i, items) ==
    IF i > Len(tags) THEN 0
    ELSE IF DictHas(items, tags[i]) THEN i
    ELSE first_ruled_tag(tags, i + 1, items)

\* a set-upload-limit call, with the tags and the upload limit the torrent had
speed_call(d, h, speed, tags, was) ==
    [downloader |-> d, hash |-> h, speed |-> speed, tags |-> tags, was |-> was]

\* the try block of a torrent iteration of the limit job, after the stop check
limit_body(r, d, h) ==
    \E tags \in LimitTagLists, res \in {"ok", "error"} :
      LET items == parse_limit(limit_tag_map, 1, <<>>).map
          i == first_ruled_tag(tags, 1, items) IN
      /\ IF i = 0
         THEN UNCHANGED <<up_limit, speed_calls, raised>>
         ELSE LET speed == DictGet(items, tags[i]) IN
              /\ speed_calls' = speed_calls \cup {speed_call(d, h, speed, tags, up_limit[d][h])}
              /\ IF res = "ok"
                 THEN /\ up_limit' = [up_limit EXCEPT ![d][h] = speed]
                      /\ UNCHANGED raised
                 ELSE /\ raised' = TRUE
                      /\ UNCHANGED up_limit
      /\ next_torrent(r)
      /\ UNCHANGED <<outcome, left>>

keeps_limit_when_cover(d, h) == up_limit[d][h] > 0 /\ cover

\* line 212: a torrent that has an upload limit keeps it unless cover is set
keeps_limit(d, h) == up_limit[d][h] > 0 /\ ~cover

\* reading torrent.up_limit is outside the try block
up_limit_read_raises(r) ==
    /\ run_dies(r, "aborted", later_work(r))
    /\ UNCHANGED <<up_limit, speed_calls, raised>>

\* one iteration of the torrent loop of the limit job
limit_torrent(r) ==
    /\ pc[r] = "torrent"
    /\ LET d == Head(queue[r])
           h == Head(batch[r]) IN
       \/ up_limit_read_raises(r)
       \/ /\ keeps_limit(d, h)
          /\ next_torrent(r)
          /\ UNCHANGED <<up_limit, speed_calls, raised, outcome, left>>
       \/ /\ ~keeps_limit(d, h)
          /\ IF event
             THEN /\ run_dies(r, "cancelled", remaining(r))
                  /\ UNCHANGED <<up_limit, speed_calls, raised>>
             ELSE limit_body(r, d, h)
    /\ UNCHANGED <<plugin, extvars, tagvars, cover, global, limit_tag_map, global_calls,
                   deletevars, present, schedvars>>

\* the downloader loop of the limit job has ended
limit_finish(r) ==
    /\ pc[r] = "scan"
    /\ queue[r] = <<>>
    /\ outcome' = "completed"
    /\ left' = remaining(r)
    /\ pc' = [pc EXCEPT ![r] = "idle"]
    /\ UNCHANGED <<othervars, deletevars, present, schedvars, queue, batch, raised>>

\* -------------------------------------------------------------- tag plugin
InitTag ==
    /\ plugin = "tag"
    /\ tracker_map \in TrackerTexts
    /\ save_path_map \in PathTexts
    /\ labels \in {f \in [Downloaders -> [Hashes -> InitialLabels]] :
                     \A d \in Downloaders : \A h \in Hashes \ Seeded(d) : f[d][h] = {}}
    /\ tag_calls = {}
    /\ present = [d \in Downloaders |-> Seeded(d)]
    /\ InitShared
    /\ DeleteDefaults
    /\ LimitDefaults

\* DownloadSiteTag._complemented_history up to the head of the downloader loop
complemented_history_start(r) ==
    /\ pc[r] = "idle"
    /\ Triggered(r)
    /\ jobs' = IF r = "date" THEN jobs - 1 ELSE jobs
    /\ tag_calls' = {}
    /\ left' = <<>> /\ raised' = FALSE
    /\ \E a1 \in SUBSET Downloaders :
         IF a1 = {}
         THEN /\ outcome' = "skipped"
              /\ UNCHANGED <<pc, queue>>
         ELSE IF parse_map(tracker_map, 1, <<>>).error # "none"
                 \/ parse_map(save_path_map, 1, <<>>).error # "none"
         THEN /\ outcome' = "rule_error"
              /\ UNCHANGED <<pc, queue>>
         ELSE \E a2 \in SUBSET Downloaders :
                IF a2 = {}
                THEN /\ outcome' = "crashed"
                     /\ UNCHANGED <<pc, queue>>
                ELSE /\ outcome' = "running"
                     /\ pc' = [pc EXCEPT ![r] = "scan"]
                     /\ queue' = [queue EXCEPT ![r] = active_services(a2)]
    /\ UNCHANGED <<plugin, extvars, limitvars, tracker_map, save_path_map, labels, deletevars,
                   present, event, scheduler, host, onlyonce, oncevars, batch>>

\* head of the downloader loop of the tag job
tag_scan_downloader(r) ==
    /\ pc[r] = "scan"
    /\ queue[r] # <<>>
    /\ LET d == Head(queue[r])
           torrents == get_torrents(d) IN
       \E error \in BOOLEAN :
         IF error \/ torrents = <<>>
         THEN /\ queue' = [queue EXCEPT ![r] = Tail(@)]
              /\ UNCHANGED <<pc, batch>>
         ELSE /\ batch' = [batch EXCEPT ![r] = torrents]
              /\ pc' = [pc EXCEPT ![r] = "torrent"]
              /\ UNCHANGED queue
    /\ UNCHANGED <<othervars, deletevars, present, schedvars, outcome, left, raised>>

\* a set_torrent_tag call, with the tags the torrent had and the labels resolved
tag_call(d, h, tags, original, sites) ==
    [downloader |-> d, hash |-> h, tags |-> tags, original |-> original, sites |-> sites]

\* the effect of set_torrent_tag: qBittorrent adds tags, Transmission replaces labels
tagged(type, current, tags) ==
    IF type = "qbittorrent" THEN current \cup tags ELSE tags

\* the try block of a torrent iteration of the tag job, after the stop check
tag_body(r, d, h) ==
    \E raise \in BOOLEAN, res \in {"ok", "error"} :
      LET type == service_type(d)
          torrent_tags == get_label(type, labels[d][h])
          sites == torrent_sites(d, h, torrent_tags,
                                 parse_map(save_path_map, 1, <<>>).map,
                                 parse_map(tracker_map, 1, <<>>).map)
          tags == sent_tags(type, sites, torrent_tags) IN
      /\ IF raise
         THEN /\ raised' = TRUE
              /\ UNCHANGED <<labels, tag_calls>>
         ELSE IF get_path(d, h) = "" \/ sites = {}
         THEN UNCHANGED <<labels, tag_calls, raised>>
         ELSE /\ tag_calls' = tag_calls \cup {tag_call(d, h, tags, torrent_tags, sites)}
              /\ IF res = "ok"
                 THEN /\ labels' = [labels EXCEPT ![d][h] = tagged(type, @, tags)]
                      /\ UNCHANGED raised
                 ELSE /\ raised' = TRUE
                      /\ UNCHANGED labels
      /\ next_torrent(r)
      /\ UNCHANGED <<outcome, left>>

\* one iteration of the torrent loop of the tag job
tag_torrent(r) ==
    /\ pc[r] = "torrent"
    /\ LET d == Head(queue[r])
           h == Head(batch[r]) IN
       IF event
       THEN /\ run_dies(r, "cancelled", remaining(r))
            /\ UNCHANGED <<labels, tag_calls, raised>>
       ELSE tag_body(r, d, h)
    /\ UNCHANGED <<plugin, extvars, limitvars, tracker_map, save_path_map,
                   deletevars, present, schedvars>>

\* the downloader loop of the tag job has ended
tag_finish(r) ==
    /\ pc[r] = "scan"
    /\ queue[r] = <<>>
    /\ outcome' = "completed"
    /\ left' = remaining(r)
    /\ pc' = [pc EXCEPT ![r] = "idle"]
    /\ UNCHANGED <<othervars, deletevars, present, schedvars, queue, batch, raised>>

NextTag ==
    \/ \E r \in Runners : NoRun /\ complemented_history_start(r)
    \/ \E r \in Runners : tag_scan_downloader(r)
    \/ \E r \in Runners : tag_torrent(r)
    \/ \E r \in Runners : tag_finish(r)
    \/ \E oo \in BOOLEAN : init_plugin(oo)
    \/ shutdown_return

SpecTag == InitTag /\ [][NextTag]_vars

NextLimit ==
    \/ \E r \in Runners : NoRun /\ complete_limit_start(r)
    \/ \E r \in Runners : limit_scan_downloader(r)
    \/ \E r \in Runners : limit_torrent(r)
    \/ \E r \in Runners : limit_finish(r)
    \/ \E oo \in BOOLEAN : init_plugin(oo)
    \/ shutdown_return

SpecLimit == InitLimit /\ [][NextLimit]_vars

\* runs one at a time
Next ==
    \/ \E r \in Runners : NoRun /\ complete_delete_start(r)
    \/ \E r \in Runners : scan_downloader(r)
    \/ \E r \in Runners : process_torrent(r)
    \/ \E r \in Runners : save_data(r)
    \/ \E oo \in BOOLEAN : init_plugin(oo)
    \/ shutdown_return
    \/ \E d \in Downloaders, h \in Hashes : add_torrent(d, h)

Spec == Init /\ [][Next]_vars

\* The two schedulers fire independently of each other: the plugin's own
\* BackgroundScheduler runs the one-shot job on its thread, the host's
\* scheduler runs the registered service on another, and _complete_delete
\* takes no lock.  One threshold, one torrent per downloader, and no torrent
\* is added again.
InitOverlap ==
    /\ plugin = "delete"
    /\ accumulate \in BOOLEAN
    /\ delete = TRUE
    /\ times = 1
    /\ tag_map = <<>>
    /\ present = [d \in Downloaders |-> {"h1"}]
    /\ InitShared
    /\ InitDeleteState
    /\ LimitDefaults
    /\ TagDefaults

NextOverlap ==
    \/ \E r \in Runners : complete_delete_start(r)
    \/ \E r \in Runners : scan_downloader(r)
    \/ \E r \in Runners : process_torrent(r)
    \/ \E r \in Runners : save_data(r)
    \/ \E oo \in BOOLEAN : init_plugin(oo)
    \/ shutdown_return

SpecOverlap == InitOverlap /\ [][NextOverlap]_vars

\* ------------------------------------------------------- the three plugins
\* the plugin object is a Delete, a Limit or a DownloadSiteTag
InitJobs == Init \/ InitLimit \/ InitTag

NextJobs ==
    \/ plugin = "delete" /\ Next
    \/ plugin = "limit" /\ NextLimit
    \/ plugin = "tag" /\ NextTag

SpecJobs == InitJobs /\ [][NextJobs]_vars

\* ------------------------------------------------------------ get_service
MaxIntervalTime == 6
MaxBelowZero == 2
IntervalTimes == (0 - MaxBelowZero)..MaxIntervalTime
Intervals == {"cron", "fixed", "other"}
IntervalUnits == {"hours", "minutes"}

MinMinutes == 5
MinutesPerHour == 60

\* lines 145-147: the minutes unit is raised to 5
minutes_floor(time) == IF time < MinMinutes THEN MinMinutes ELSE time

interval_trigger(minutes) == [trigger |-> "interval", minutes |-> minutes]

\* get_service of Delete, Limit and DownloadSiteTag: the trigger registered
get_service ==
    /\ IF enabled /\ interval \in {"cron", "fixed"}
       THEN IF interval = "fixed"
            THEN IF interval_unit = "hours"
                 THEN /\ service' = interval_trigger(interval_time * MinutesPerHour)
                      /\ UNCHANGED interval_time
                 ELSE /\ interval_time' = minutes_floor(interval_time)
                      /\ service' = interval_trigger(interval_time')
            ELSE /\ service' = [trigger |-> "cron", minutes |-> 0]
                 /\ UNCHANGED interval_time
       ELSE /\ service' = NoService
            /\ UNCHANGED interval_time
    /\ UNCHANGED <<othervars, accumulate, times, tag_map, enabled, interval, interval_unit,
                   present, data, heap, new_config, schedvars, pc, queue, batch, histvars>>

\* init_plugin reads the schedule selection of a new configuration
read_schedule(on, sel, unit, time) ==
    /\ host = "idle"
    /\ enabled' = on
    /\ interval' = sel
    /\ interval_unit' = unit
    /\ interval_time' = time
    /\ UNCHANGED <<othervars, accumulate, times, tag_map, service,
                   present, data, heap, new_config, schedvars, pc, queue, batch, histvars>>

InitService ==
    /\ plugin \in {"delete", "limit", "tag"}
    /\ present = [d \in Downloaders |-> Seeded(d)]
    /\ InitShared
    /\ DeleteDefaults
    /\ LimitDefaults
    /\ TagDefaults

NextService ==
    \/ get_service
    \/ \E on \in BOOLEAN, sel \in Intervals, unit \in IntervalUnits, time \in IntervalTimes :
          read_schedule(on, sel, unit, time)

SpecService == InitService /\ [][NextService]_vars

\* ------------------------------------------------- onlyonce, four plugins
\* AutoSubRename.init_plugin: save the configuration, stop the service, run
\* batch_rename at once when onlyonce is set, then reset the flag and save
sub_call_init_plugin(oo, origin) ==
    /\ requested' = origin
    /\ immediate' = IF oo THEN 1 ELSE 0
    /\ outcome' = IF oo THEN "completed" ELSE outcome
    /\ onlyonce' = FALSE
    /\ config_onlyonce' = FALSE
    /\ UNCHANGED <<othervars, cfgvars, present, data, heap, new_config,
                   event, scheduler, jobs, host, interrupted, pc, queue, batch,
                   before, handled, deletes, writes, left, raised, streak, last, missed>>

sub_init_plugin(oo) == sub_call_init_plugin(oo, IF oo THEN "onlyonce" ELSE "plain")

sub_reload == sub_call_init_plugin(config_onlyonce, "persisted")

InitSub ==
    /\ plugin = "autosubrename"
    /\ present = [d \in Downloaders |-> {}]
    /\ InitShared
    /\ DeleteDefaults
    /\ LimitDefaults
    /\ TagDefaults

\* one configuration of the limit plugin
InitLimitOnce ==
    /\ InitLimit
    /\ cover /\ ~global
    /\ limit_tag_map = << <<"slow", "50">>, <<"fast", "1000">> >>
    /\ up_limit = [d \in Downloaders |-> [h \in Hashes |-> 0]]

InitOnce == InitOverlap \/ InitLimitOnce \/ InitSub

NextSub ==
    \/ \E oo \in BOOLEAN : sub_init_plugin(oo)
    \/ sub_reload

NextOnce ==
    \/ plugin = "delete" /\ Next
    \/ plugin = "limit" /\ NextLimit
    \/ plugin = "autosubrename" /\ NextSub
    \/ plugin # "autosubrename" /\ reload

SpecOnce == InitOnce /\ [][NextOnce]_vars

\* ================================================================ claims
Count(dict, h) == IF h \in DOMAIN dict THEN dict[h].time ELSE 0

DeletedHashes == {c.hash : c \in deletes}

NothingLeft == <<<<>>, <<>>>>

\* C1: with accumulate=true and threshold T >= 1, a torrent that had no record
\* and is classified unreachable in each of the completed runs 1..T+1 has
\* count k after run k (k <= T); run T+1 issues a delete for it and commits a
\* store without its record.
C1_StreakCounts ==
    (accumulate /\ times >= 1) =>
      \A h \in Hashes :
        /\ streak[h] = 0 => h \notin DOMAIN data
        /\ streak[h] \in 1..times => (h \in DOMAIN data /\ data[h].time = streak[h])
        /\ streak[h] = times + 1 =>
             /\ h \notin DOMAIN data
             /\ outcome = "completed" => h \in DeletedHashes

C1_Witness ==
    /\ accumulate /\ times = MaxTimes /\ outcome = "completed"
    /\ streak["h1"] = times + 1
    /\ "h1" \in DeletedHashes
    /\ "h1" \notin DOMAIN data

C3_IncrementByOne ==
    outcome = "completed" =>
      \A h \in handled \ DeletedHashes :
         h \in DOMAIN data /\ data[h].time = Count(before, h) + 1

\* C4: when a run issues a delete for a torrent, the store committed at the
\* end of that run has no record for its hash, in both accumulate modes.
C4_DeletedHasNoRecord ==
    outcome = "completed" => \A h \in DeletedHashes : h \notin DOMAIN data

C6_UnreachableIffNoSuccess ==
    last.checked =>
      /\ last.classified <=> ~last.succeeded
      /\ last.succeeded => (~last.counted /\ ~last.deleted)

C6_Witness ==
    /\ last.checked /\ last.succeeded /\ ~last.classified
    /\ handled # {}

\* C7: a run that entered the downloader loop and was not cancelled writes the
\* store exactly once, after the last torrent of the last downloader; nothing
\* is written while the run is in progress.
C7_SingleCommit ==
    /\ outcome = "running" => (writes = 0 /\ data = before)
    /\ outcome = "completed" => (writes = 1 /\ left = NothingLeft)
    /\ (NoRun /\ outcome \notin {"none", "skipped", "crashed", "cancelled"})
          => outcome = "completed"

C7_Witness ==
    /\ outcome = "completed" /\ writes = 1
    /\ data # before
    /\ Cardinality(handled) = 2

\* C8: a run that sees the stop event set at a torrent iteration returns
\* without committing: the store is the store from before the run.
C8_CancelKeepsStore ==
    outcome = "cancelled" => (data = before /\ writes = 0)

C8_Witness ==
    /\ outcome = "cancelled"
    /\ heap[new_config] # before
    /\ before # EmptyDict
    /\ left # NothingLeft

\* C9: two runs of the job never execute at the same time, so the old and new
\* counter maps of a run in progress are never rebound by another run.
C9_NoOverlap ==
    ~(pc["date"] # "idle" /\ pc["cron"] # "idle")

\* C10: in the tag, limit and delete jobs an exception raised while reading
\* or mutating one torrent is caught: no run ends because of it, and a run
\* that was not cancelled has processed every later torrent and downloader.
C10_TorrentErrorsIsolated ==
    /\ outcome # "aborted"
    /\ outcome = "completed" => left = NothingLeft

\* C11: a rule line that is blank, has no ':' or (tag-to-speed table) has a
\* value that is not an integer is skipped: no run ends on a rule line, and
\* every well-formed line of the tag-to-speed text is in the table the run uses.
WellFormed(line) == Len(line) = 2 /\ IsInt(line[2])

C11_MalformedLinesSkipped ==
    /\ outcome # "rule_error"
    /\ (plugin = "limit" /\ outcome = "completed") =>
          \A i \in DOMAIN limit_tag_map :
             WellFormed(limit_tag_map[i]) =>
                DictHas(parse_limit(limit_tag_map, 1, <<>>).map, limit_tag_map[i][1])

\* the first line of a rule text that has the key, 0 when no line has it
FirstLine(lines, key) ==
    LET with == {i \in DOMAIN lines : Len(lines[i]) = 2 /\ lines[i][1] = key} IN
    IF with = {} THEN 0 ELSE CHOOSE i \in with : \A j \in with : i <= j

\* the values of the lines that are the first of their key
FirstValues(lines) ==
    {lines[i][2] : i \in {j \in DOMAIN lines : FirstLine(lines, lines[j][1]) = j}}

\* C12: when a key is on more than one line of a rule text, the value applied
\* is that of the first such line: every speed applied is the first-line value
\* of one of the torrent's tags, and every label resolved from a table is the
\* value of a line that is the first of its key.
C12_FirstDuplicateWins ==
    /\ \A c \in speed_calls :
          \E i \in DOMAIN c.tags :
             /\ FirstLine(limit_tag_map, c.tags[i]) # 0
             /\ c.speed = int(limit_tag_map[FirstLine(limit_tag_map, c.tags[i])][2])
    /\ \A c \in tag_calls :
          c.sites \subseteq
             (FirstValues(tracker_map) \cup FirstValues(save_path_map) \cup IndexerNames)

\* the first rule of the table, in table order, whose key is one of the tags
FirstRuleOf(items, tags) ==
    LET hits == {i \in DOMAIN items : items[i][1] \in Range(tags)} IN
    IF hits = {} THEN 0 ELSE CHOOSE i \in hits : \A j \in hits : i <= j

\* C13: when several tags of a torrent have a rule, the limit applied is that
\* of the rule that comes first in the table, whatever the order of the tags.
C13_RuleOrderDecides ==
    \A c \in speed_calls :
       LET items == parse_limit(limit_tag_map, 1, <<>>).map
           k == FirstRuleOf(items, c.tags) IN
       k # 0 /\ c.speed = items[k][2]

\* C17: with cover=false no set-upload-limit call is issued for a torrent whose
\* upload limit is above 0; with cover=true such torrents are limited like others.
C17_ManualLimitKept ==
    \A c \in speed_calls : ~cover => ~(c.was > 0)

C17_Witness ==
    /\ ~cover /\ outcome = "completed"
    /\ up_limit["qb"]["h1"] = 30
    /\ \E c \in speed_calls : c.downloader = "qb" /\ c.hash = "h2"
    /\ \A c \in speed_calls : ~(c.downloader = "qb" /\ c.hash = "h1")

\* the values of the save-path table of the run
PathLabels == {r[2] : r \in Range(parse_map(save_path_map, 1, <<>>).map)}

\* the label one tracker yields: the value of the first rule, in table order,
\* whose key the tracker URL contains; the registry's site when no rule matches
LabelOf(tracker, items) ==
    LET hits == {i \in DOMAIN items : Contains(tracker, items[i][1])} IN
    IF hits # {} THEN items[CHOOSE i \in hits : \A j \in hits : i <= j][2]
    ELSE get_indexer(get_url_domain(tracker))

\* the label of the first tracker, in the torrent's order, that yields one
ExpectedSite(trackers, items) ==
    LET yield == {i \in DOMAIN trackers : LabelOf(trackers[i], items) # ""} IN
    IF yield = {} THEN {}
    ELSE {LabelOf(trackers[CHOOSE i \in yield : \A j \in yield : i <= j], items)}

\* C14: the site label of a torrent that carries no indexer tag is the label of
\* the first tracker, in the downloader's order, that yields one; within a
\* tracker the first matching rule wins and the registry is asked only when no
\* rule matches.
C14_FirstTrackerFirstRule ==
    \A c \in tag_calls :
       c.original \cap IndexerNames = {} =>
          c.sites \ PathLabels =
             ExpectedSite(get_trackers(c.downloader, c.hash),
                          parse_map(tracker_map, 1, <<>>).map) \ PathLabels

C14_Witness ==
    /\ tracker_map = << <<"/ann", "Any">>, <<"reg.org", "Mine">> >>
    /\ \E c \in tag_calls : c.downloader = "tr" /\ c.sites = {"Movie", "Any"}
    /\ \E c \in tag_calls : c.hash = "h2" /\ c.sites = {"Any"}

\* C15: for a torrent whose tags hold a known indexer name no site label is
\* resolved: only a save-path label is added by a call issued for it.
C15_IndexerTagStopsSite ==
    \A c \in tag_calls :
       c.original \cap IndexerNames # {} =>
          (c.sites \cup (c.tags \ c.original)) \subseteq PathLabels

C15_Witness ==
    \E c \in tag_calls :
       /\ "RegSite" \in c.original
       /\ c.downloader = "qb" /\ c.hash = "h1"
       /\ c.sites = {"Movie"}

\* C16: when the labels a run resolves for a torrent are all among the tags it
\* already has, the run issues no set_torrent_tag call for it.
C16_SecondRunNoCall ==
    \A c \in tag_calls : ~(c.sites \subseteq c.original)

\* C18: a downloader that is absent, disconnected, or whose fetch fails or is
\* empty does not fail the run: no run ends on the downloader set, and a
\* completed run has gone through every downloader that was connected.
C18_DownloaderSkipped ==
    /\ outcome # "crashed"
    /\ outcome = "completed" => (left = NothingLeft /\ \A r \in Runners : queue[r] = <<>>)

C20_PeriodAtLeastFive ==
    service.trigger = "interval" => service.minutes >= MinMinutes

\* ------------------------------------------- rule lines with a second ':'
\* the line 'abc.com:PT:HD' of a tracker text, the line 'slow:50:80' of a
\* tag-to-speed text, each as the fields item.split(":") yields
SplitTrackerText == << <<"abc.com", "PT", "HD">>, <<"def.com", "Free">> >>
SplitLimitText == << <<"slow", "50", "80">>, <<"fast", "1000">> >>

InitTagSplit ==
    /\ plugin = "tag"
    /\ tracker_map = SplitTrackerText
    /\ save_path_map = << <<"/movies", "Movie">> >>
    /\ labels \in {f \in [Downloaders -> [Hashes -> InitialLabels]] :
                     \A d \in Downloaders : \A h \in Hashes \ Seeded(d) : f[d][h] = {}}
    /\ tag_calls = {}
    /\ present = [d \in Downloaders |-> Seeded(d)]
    /\ InitShared
    /\ DeleteDefaults
    /\ LimitDefaults

InitLimitSplit ==
    /\ plugin = "limit"
    /\ cover \in BOOLEAN
    /\ global = FALSE
    /\ limit_tag_map = SplitLimitText
    /\ up_limit = [d \in Downloaders |-> [h \in Hashes |-> 0]]
    /\ speed_calls = {}
    /\ global_calls = {}
    /\ present = [d \in Downloaders |-> Seeded(d)]
    /\ InitShared
    /\ DeleteDefaults
    /\ TagDefaults

InitSplit == InitTagSplit \/ InitLimitSplit

NextSplit ==
    \/ plugin = "tag" /\ NextTag
    \/ plugin = "limit" /\ NextLimit

SpecSplit == InitSplit /\ [][NextSplit]_vars

\* the value of a rule line when the line is split at its first ':' only:
\* the fields after the first, which the colons between them keep apart
ValueAfterFirstColon(line) == SubSeq(line, 2, Len(line))

\* C21: a rule line is split at its first ':' only, so the value of the line
\* is everything after that colon: every label resolved from a table is the
\* whole value of one of its lines, and every speed applied is the whole value
\* of a line whose key is one of the torrent's tags.
C21_SplitAtFirstColon ==
    /\ \A c \in tag_calls :
          \A site \in c.sites \ IndexerNames :
             \E text \in {tracker_map, save_path_map} :
                \E i \in DOMAIN text :
                   /\ Len(text[i]) >= 2
                   /\ ValueAfterFirstColon(text[i]) = <<site>>
    /\ \A c \in speed_calls :
          \E i \in DOMAIN limit_tag_map :
             LET value == ValueAfterFirstColon(limit_tag_map[i]) IN
             /\ Len(limit_tag_map[i]) >= 2
             /\ limit_tag_map[i][1] \in Range(c.tags)
             /\ Len(value) = 1 /\ IsInt(value[1]) /\ int(value[1]) = c.speed

\* C22: with accumulate=true, when the fetch of a downloader's torrents fails
\* or the check of one torrent raises, the record persisted for such a torrent
\* of that downloader is carried unchanged into the store the run commits
\* (the torrents another downloader's pass classified in the same run aside).
C22_ErrorKeepsRecords ==
    (accumulate /\ outcome = "completed") =>
       \A m \in missed :
          LET d == m[1]
              h == m[2] IN
          (h \in DOMAIN before /\ before[h].type = d /\ h \notin handled) =>
             (h \in DOMAIN data /\ data[h] = before[h])

\* ------------------------------------------------------ the delete switch
\* init_plugin reads the switch from the configuration; one threshold
InitSwitch ==
    /\ plugin = "delete"
    /\ delete \in BOOLEAN
    /\ accumulate \in BOOLEAN
    /\ times = 1
    /\ tag_map = <<>>
    /\ present = [d \in Downloaders |-> {"h1"}]
    /\ InitShared
    /\ InitDeleteState
    /\ LimitDefaults
    /\ TagDefaults

SpecSwitch == InitSwitch /\ [][Next]_vars

\* C23: torrents are deleted only when the 'delete' switch of the
\* configuration is on; with delete=false no run calls delete_torrents.
C23_DeleteOnlyWhenSwitchedOn ==
    ~delete => deletes = {}

\* C24: a torrent that carries a tag equal to a line of the ignore-tag list
\* is never checked: its iteration reads no tracker, classifies nothing,
\* writes no record and deletes nothing.
C24_IgnoredNeverChecked ==
    last.exempt =>
       /\ ~last.checked /\ ~last.succeeded
       /\ ~last.classified /\ ~last.counted /\ ~last.deleted

\* an ignored torrent passed over in a run that started with a record in the store
C24_Witness ==
    /\ last.exempt /\ tag_map = <<"keep">>
    /\ outcome = "running" /\ DOMAIN before # {}

\* C25: with the threshold T fixed, every record of the persisted store has a
\* count between 1 and T, after any sequence of runs, completed or cancelled,
\* in both accumulate modes.
C25_CountWithinThreshold ==
    \A h \in DOMAIN data : data[h].time >= 1 /\ data[h].time <= times

\* a cancelled run has left a store in which a record is at the threshold
C25_Witness ==
    /\ times = MaxTimes /\ outcome = "cancelled"
    /\ \E h \in DOMAIN data : data[h].time = times

C27_StopAbortsRun ==
    /\ [](host = "idle" => ~event)
    /\ [][(host = "shutdown" /\ host' = "idle") =>
             \A r \in interrupted : pc[r] # "torrent"]_vars

\* ------------------------------------------------- the one-shot job, fair
\* Only the plugin's own scheduler starts runs here.  APScheduler fires a
\* pending 'date' job once its run date has passed, its thread goes on through
\* the run, and shutdown() returns once that thread is done: weak fairness of
\* these steps.  Calls of init_plugin are up to the host and the user.
InitLost == InitSwitch /\ delete /\ accumulate

date_run ==
    \/ complete_delete_start("date")
    \/ scan_downloader("date")
    \/ process_torrent("date")
    \/ save_data("date")

NextLost ==
    \/ date_run
    \/ \E oo \in BOOLEAN : init_plugin(oo)
    \/ reload
    \/ shutdown_return
    \/ \E d \in Downloaders, h \in Hashes : add_torrent(d, h)

SpecLost ==
    /\ InitLost /\ [][NextLost]_vars
    /\ WF_vars(date_run) /\ WF_vars(shutdown_return)

\* C28: an immediate run requested with onlyonce=true is never lost: once the
\* one-shot job is pending, the run it stands for eventually executes, also
\* when init_plugin is called again before the job fires (shown for the first
\* request, before which no run has executed).
C28_ImmediateRunNotLost ==
    (jobs > 0 /\ outcome = "none") ~> (outcome # "none")

\* ------------------------------------------------- the HA plugin: actions
ha_rest == <<plugin, delete, subvars, limitvars, tagvars, accumulate, times, tag_map,
             svcvars, present, data, heap, new_config, schedvars, pc, queue, batch,
             histvars>>

\* HA.init_plugin: read the configuration; with enabled and get_dir set,
\* start a thread running process_queue
ha_init_plugin(config) ==
    /\ stopped' = FALSE
    /\ IF config = NoConfig
       THEN UNCHANGED <<enabled, notify, get_dir, msg_type, threads>>
       ELSE /\ enabled' = config.enabled
            /\ notify' = config.notify
            /\ get_dir' = config.get_dir
            /\ msg_type' = config.msg_type
            /\ IF config.enabled /\ config.get_dir # ""
               THEN \E t \in Threads :
                      /\ threads[t] = "none"
                      /\ \A u \in Threads : u < t => threads[u] # "none"
                      /\ threads' = [threads EXCEPT ![t] = "get"]
               ELSE UNCHANGED threads
    /\ UNCHANGED <<holding, wake, message_queue, offered, last_send_time, now, sent>>
    /\ UNCHANGED ha_rest

\* HA.stop_service: pass
ha_stop_service ==
    /\ stopped' = TRUE
    /\ UNCHANGED <<enabled, notify, get_dir, msg_type, threads, holding, wake,
                   message_queue, offered, last_send_time, now, sent>>
    /\ UNCHANGED ha_rest

\* HA.send: a NoticeMessage event with a title; queued when enabled and notify
ha_send(channel) ==
    /\ offered < MaxMessages
    /\ offered' = offered + 1
    /\ message_queue' =
          IF enabled /\ notify
          THEN Append(message_queue, [id |-> offered + 1, channel |-> channel])
          ELSE message_queue
    /\ UNCHANGED <<enabled, notify, get_dir, msg_type, threads, holding, wake,
                   last_send_time, now, sent, stopped>>
    /\ UNCHANGED ha_rest

\* process_queue, lines 147-157: leave when the event is set, else take the
\* next message and compute how long to sleep
process_queue_get(t) ==
    /\ threads[t] = "get"
    /\ IF event
       THEN /\ threads' = [threads EXCEPT ![t] = "exited"]
            /\ UNCHANGED <<holding, wake, message_queue>>
       ELSE /\ message_queue # <<>>
            /\ holding' = [holding EXCEPT ![t] = Head(message_queue)]
            /\ message_queue' = Tail(message_queue)
            /\ wake' = [wake EXCEPT ![t] =
                          IF now - last_send_time < send_interval
                          THEN now + (send_interval - (now - last_send_time))
                          ELSE now]
            /\ threads' = [threads EXCEPT ![t] = "sleep"]
    /\ UNCHANGED <<enabled, notify, get_dir, msg_type, offered, last_send_time, now,
                   sent, stopped>>
    /\ UNCHANGED ha_rest

\* process_queue, lines 159-189: after the sleep, skip a channel message or a
\* message type that is not enabled, else post; a successful post sets
\* last_send_time
process_queue_post(t) ==
    /\ threads[t] = "sleep"
    /\ now >= wake[t]
    /\ LET msg_body == holding[t] IN
       IF msg_body.channel \/ (msg_type # {} /\ "Plugin" \notin msg_type)
       THEN UNCHANGED <<sent, last_send_time>>
       ELSE \E res \in PostResults :
              IF res = "ok"
              THEN /\ sent' = Append(sent, [id |-> msg_body.id, time |-> now, thread |-> t])
                   /\ last_send_time' = now
              ELSE UNCHANGED <<sent, last_send_time>>
    /\ threads' = [threads EXCEPT ![t] = "get"]
    /\ holding' = [holding EXCEPT ![t] = NoMessage]
    /\ UNCHANGED <<enabled, notify, get_dir, msg_type, wake, message_queue, offered,
                   now, stopped>>
    /\ UNCHANGED ha_rest

\* a second passes
tick ==
    /\ now < send_interval + MaxClock
    /\ now' = now + 1
    /\ UNCHANGED <<enabled, notify, get_dir, msg_type, threads, holding, wake,
                   message_queue, offered, last_send_time, sent, stopped>>
    /\ UNCHANGED ha_rest

\* the HA object after construction: class attributes, no configuration yet
InitHA ==
    /\ plugin = "ha"
    /\ enabled = FALSE
    /\ present = [d \in Downloaders |-> {}]
    /\ InitIdle
    /\ HADefaults
    /\ SubDefaults
    /\ DeleteDefaults
    /\ LimitDefaults
    /\ TagDefaults

NextHA ==
    \/ \E config \in HAConfigs : ha_init_plugin(config)
    \/ ha_stop_service
    \/ \E channel \in BOOLEAN : ha_send(channel)
    \/ \E t \in Threads : process_queue_get(t)
    \/ \E t \in Threads : process_queue_post(t)
    \/ tick

SpecHA == InitHA /\ [][NextHA]_vars

\* the threads that are running process_queue
Workers == {t \in Threads : threads[t] \in {"get", "sleep"}}

\* C29: at most one thread consumes the message queue at any time, whatever
\* the sequence of init_plugin and stop_service calls; messages are sent in
\* the order they were queued, and two successful sends are never closer to
\* each other than the send interval.
C29_OneWorkerFifoSpaced ==
    /\ Cardinality(Workers) <= 1
    /\ \A i \in DOMAIN sent : \A j \in DOMAIN sent :
          i < j => /\ sent[i].id < sent[j].id
                   /\ sent[j].time - sent[i].time >= send_interval

\* -------------------------------------------- the subtitle renamer: actions
sub_rest == <<plugin, delete, havars, limitvars, tagvars, cfgvars, present, data, heap,
              new_config, schedvars, pc, queue, batch, histvars>>

\* SubtitleRenamer.extract_episode_info on the names of the directory
extract_episode_info(name) == IF name = "notes.srt" THEN "" ELSE "S01E01"

\* generate_new_sub_name for the video find_matching_video returns
new_sub_path(sub_path) == Target

report(c, sub_path, why) == [caller |-> c, path |-> sub_path, why |-> why]

\* the caller goes on: batch_rename to the next file of its walk
returned(c) ==
    IF c = "batch" THEN listing' = Tail(listing) ELSE UNCHANGED listing

\* rename_subtitle, lines 42-73: up to the os.path.exists test of the new path
rename_check(c, sub_path) ==
    /\ IF extract_episode_info(sub_path) = ""
       THEN /\ reports' = reports \cup {report(c, sub_path, "no episode")}
            /\ returned(c)
            /\ UNCHANGED call
       ELSE IF files[new_sub_path(sub_path)] # "none"
       THEN /\ reports' = reports \cup {report(c, sub_path, "exists")}
            /\ returned(c)
            /\ UNCHANGED call
       ELSE /\ call' = [call EXCEPT ![c] = [path |-> sub_path, stage |-> "rename"]]
            /\ UNCHANGED <<reports, listing>>
    /\ UNCHANGED <<files, batches, processed_files, replaced>>
    /\ UNCHANGED sub_rest

\* rename_subtitle, lines 75-81: os.rename raises when the old name is gone;
\* when the new name is taken it puts the file in its place (POSIX) or
\* raises (Windows)
rename_subtitle_rename(c) ==
    /\ call[c].stage = "rename"
    /\ LET sub_path == call[c].path
           new == new_sub_path(sub_path) IN
       \E posix \in BOOLEAN :
       IF files[sub_path] = "none" \/ (files[new] # "none" /\ ~posix)
       THEN /\ reports' = reports \cup {report(c, sub_path, "error")}
            /\ UNCHANGED <<files, processed_files, replaced>>
       ELSE /\ files' = [p \in Paths |-> IF p = new THEN files[sub_path]
                                          ELSE IF p = sub_path THEN "none"
                                          ELSE files[p]]
            /\ replaced' = replaced \cup
                  (IF files[new] # "none" /\ new # sub_path THEN {files[new]} ELSE {})
            /\ processed_files' = processed_files \cup {sub_path}
            /\ UNCHANGED reports
    /\ call' = [call EXCEPT ![c] = NoCall]
    /\ returned(c)
    /\ UNCHANGED batches
    /\ UNCHANGED sub_rest

\* process_subtitle for a file event of the watcher thread
process_subtitle(sub_path) ==
    /\ call["watcher"].stage = "idle"
    /\ sub_path \notin processed_files
    /\ rename_check("watcher", sub_path)

\* batch_rename: os.walk lists the files of the directory
batch_rename ==
    /\ call["batch"].stage = "idle" /\ listing = <<>>
    /\ batches < MaxBatches
    /\ batches' = batches + 1
    /\ listing' = SelectSeq(PathOrder, LAMBDA p : files[p] # "none")
    /\ UNCHANGED <<files, call, processed_files, replaced, reports>>
    /\ UNCHANGED sub_rest

\* batch_rename: the next subtitle of the walk
batch_rename_file ==
    /\ call["batch"].stage = "idle" /\ listing # <<>>
    /\ rename_check("batch", Head(listing))

\* the directory when the plugin starts: the destination name free or taken
InitRename ==
    /\ plugin = "autosubrename"
    /\ enabled = TRUE
    /\ present = [d \in Downloaders |-> {}]
    /\ files \in {f \in [Paths -> {"none", "A", "B", "N", "T"}] :
                    /\ f["a.S01E01.srt"] = "A" /\ f["b.S01E01.srt"] \in {"B", "none"}
                    /\ f["notes.srt"] = "N" /\ f[Target] \in {"none", "T"}}
    /\ call = [c \in Callers |-> NoCall]
    /\ listing = <<>>
    /\ batches = 0
    /\ processed_files = {}
    /\ replaced = {}
    /\ reports = {}
    /\ InitIdle
    /\ HADefaults
    /\ DeleteDefaults
    /\ LimitDefaults
    /\ TagDefaults

NextRename ==
    \/ \E sub_path \in Paths : process_subtitle(sub_path)
    \/ batch_rename
    \/ batch_rename_file
    \/ \E c \in Callers : rename_subtitle_rename(c)

SpecRename == InitRename /\ [][NextRename]_vars

\* C30: the renamer never replaces an existing file: no rename, by the watcher
\* thread or by batch_rename, running one after the other or at the same
\* time, puts a subtitle in the place of a file that was there.
C30_NeverReplaces ==
    replaced = {}

====
